---- MODULE Spec2Model ----
(***************************************************************************)
(* Comparador de dosis (src/app.py): one Streamlit session.  Every user    *)
(* interaction (upload, removal, multiselect change, slider change,        *)
(* download click) re-executes the script top to bottom; one action of     *)
(* this module is one such pass.                                           *)
(*                                                                         *)
(* Numbers are decimal fixed point in hundredths (1.34 is 134).  Derived   *)
(* statistics that need more resolution (mean, median, quantile) are exact *)
(* rationals [n, d] until the code rounds them.  Text of a CSV cell is a   *)
(* sequence of one-character strings.                                      *)
(***************************************************************************)
EXTENDS Integers, Sequences, FiniteSets, TLC

(* ------------------------------------------------------------------------ *)
(* Bounds of the model                                                      *)
(* ------------------------------------------------------------------------ *)

\* Largest number of data rows of an uploaded CSV file.
MaxRows == 2

(* ------------------------------------------------------------------------ *)
(* Cell values of a DataFrame                                               *)
(* ------------------------------------------------------------------------ *)

\* A missing value.
NaN == [k |-> "nan", x |-> 0, s |-> <<>>]

\* A number, x in hundredths.
Num(x) == [k |-> "num", x |-> x, s |-> <<>>]

\* A string, s its characters.
Str(s) == [k |-> "str", x |-> 0, s |-> s]

IsNaN(v) == v.k = "nan"

\* Elementwise ==: NaN equals nothing, a string never equals a number.
ValEq(a, b) ==
    \/ a.k = "num" /\ b.k = "num" /\ a.x = b.x
    \/ a.k = "str" /\ b.k = "str" /\ a.s = b.s

\* Same content of two cells (missing matches missing), as a frame comparison
\* (DataFrame.equals) has it.
SameCell(a, b) == (IsNaN(a) /\ IsNaN(b)) \/ ValEq(a, b)

(* ------------------------------------------------------------------------ *)
(* Text                                                                     *)
(* ------------------------------------------------------------------------ *)

Digits == <<"0", "1", "2", "3", "4", "5", "6", "7", "8", "9">>

\* Code-point order of the characters that occur in labels.
Alphabet == Digits \o <<"A", "B", "C", "D">>

IsDigit(c) == \E i \in 1..Len(Digits) : Digits[i] = c

DigitVal(c) == (CHOOSE i \in 1..Len(Digits) : Digits[i] = c) - 1

CharOrd(c) == CHOOSE i \in 1..Len(Alphabet) : Alphabet[i] = c

RECURSIVE TextLess(_, _)
\* Python's str < str.
TextLess(a, b) ==
    IF Len(b) = 0 THEN FALSE
    ELSE IF Len(a) = 0 THEN TRUE
    ELSE IF Head(a) = Head(b) THEN TextLess(Tail(a), Tail(b))
    ELSE CharOrd(Head(a)) < CharOrd(Head(b))

IsIntText(t) == Len(t) > 0 /\ \A i \in 1..Len(t) : IsDigit(t[i])

\* digits "." digits
IsFloatText(t) ==
    \E p \in 2..(Len(t) - 1) :
        /\ t[p] = "."
        /\ \A i \in 1..Len(t) : i # p => IsDigit(t[i])

IsNumText(t) == IsIntText(t) \/ IsFloatText(t)

RECURSIVE DigitsValue(_)
DigitsValue(t) ==
    IF Len(t) = 0 THEN 0
    ELSE 10 * DigitsValue(SubSeq(t, 1, Len(t) - 1)) + DigitVal(t[Len(t)])

\* The number a numeric text denotes, in hundredths (texts of the model carry
\* at most two decimals).
ParseNum(t) ==
    IF IsIntText(t) THEN 100 * DigitsValue(t)
    ELSE LET p == CHOOSE i \in 1..Len(t) : t[i] = "."
             frac == SubSeq(t, p + 1, Len(t))
             f2 == IF Len(frac) = 1 THEN 10 * DigitsValue(frac)
                   ELSE DigitsValue(SubSeq(frac, 1, 2))
         IN  100 * DigitsValue(SubSeq(t, 1, p - 1)) + f2

RECURSIVE IntText(_)
\* str(int) for n >= 0.
IntText(n) ==
    IF n < 10 THEN <<Digits[n + 1]>>
    ELSE IntText(n \div 10) \o <<Digits[(n % 10) + 1]>>

\* repr(float) of a non-negative number of hundredths: shortest text, always
\* with a decimal point.
FloatText(x) ==
    LET f == x % 100
    IN  IntText(x \div 100) \o <<".">> \o
        (IF f % 10 = 0 THEN <<Digits[(f \div 10) + 1]>>
         ELSE <<Digits[(f \div 10) + 1], Digits[(f % 10) + 1]>>)

\* The strings read_csv takes for a missing value (a few of its defaults).
NaValues == {<<>>, <<"N", "A">>}

(* ------------------------------------------------------------------------ *)
(* DataFrame, read_csv, to_csv                                              *)
(* ------------------------------------------------------------------------ *)

Range(q) == {q[i] : i \in 1..Len(q)}

\* Position of column c in a header.
ColPos(header, c) == CHOOSE j \in 1..Len(header) : header[j] = c

\* dtype the C parser infers for the cells of one column: int64 when every
\* cell is an integer, float64 when every present cell is a number (missing
\* ones become NaN), object (strings) otherwise.
InferDtype(cells) ==
    LET present == {i \in 1..Len(cells) : cells[i] \notin NaValues}
    IN  IF \A i \in present : IsNumText(cells[i])
        THEN IF present = 1..Len(cells) /\ \A i \in present : IsIntText(cells[i])
             THEN "int64" ELSE "float64"
        ELSE "object"

ParseCell(dtype, t) ==
    IF t \in NaValues THEN NaN
    ELSE IF dtype = "object" THEN Str(t)
    ELSE Num(ParseNum(t))

\* pd.read_csv(archivo): header row, then one record per line, index 0..n-1.
read_csv(file) ==
    LET cols == Range(file.header)
        column(c) == [i \in 1..Len(file.rows) |-> file.rows[i][ColPos(file.header, c)]]
        dt == [c \in cols |-> InferDtype(column(c))]
    IN  [columns |-> file.header,
         dtypes  |-> dt,
         rows    |-> [i \in 1..Len(file.rows) |->
                        [idx |-> i - 1,
                         v   |-> [c \in cols |->
                                    ParseCell(dt[c], file.rows[i][ColPos(file.header, c)])]]]]

FormatCell(dtype, v) ==
    IF IsNaN(v) THEN <<>>
    ELSE IF dtype = "object" THEN v.s
    ELSE IF dtype = "int64" THEN IntText(v.x \div 100)
    ELSE FloatText(v.x)

\* df_in.to_csv(buf, index=False): header in column order, one line per
\* record, missing values as empty text.
to_csv(df_in) ==
    [header |-> df_in.columns,
     rows   |-> [i \in 1..Len(df_in.rows) |->
                   [j \in 1..Len(df_in.columns) |->
                      FormatCell(df_in.dtypes[df_in.columns[j]],
                                 df_in.rows[i].v[df_in.columns[j]])]]]

\* Two frames with the same columns in the same order and the same records in
\* the same order with equal field values.
SameContent(a, b) ==
    /\ a.columns = b.columns
    /\ Len(a.rows) = Len(b.rows)
    /\ \A i \in 1..Len(a.rows) : \A c \in Range(a.columns) :
          SameCell(a.rows[i].v[c], b.rows[i].v[c])

(* ------------------------------------------------------------------------ *)
(* Data sources                                                             *)
(* ------------------------------------------------------------------------ *)

\* Validación mínima de columnas.
cols_req == {"procedimiento", "DAP_Gycm2", "Ka_r_mGy", "tiempo_fluoro_min"}

ColumnOrder == <<"procedimiento", "DAP_Gycm2", "Ka_r_mGy", "tiempo_fluoro_min">>

\* ejemplo_df(): the seeded sample, abridged to four records and two labels.
ejemplo_df ==
    LET rec(i, p, d, k, t) ==
            [idx |-> i,
             v   |-> [c \in cols_req |->
                        CASE c = "procedimiento" -> Str(p)
                          [] c = "DAP_Gycm2" -> Num(d)
                          [] c = "Ka_r_mGy" -> Num(k)
                          [] OTHER -> Num(t)]]
    IN  [columns |-> ColumnOrder,
         dtypes  |-> [c \in cols_req |->
                        IF c = "procedimiento" THEN "object" ELSE "float64"],
         rows    |-> << rec(0, <<"A">>, 200, 1000, 50),
                        rec(1, <<"B">>, 250, 2000, 100),
                        rec(2, <<"A">>, 450, 3050, 100),
                        rec(3, <<"A">>, 210, 1500, 150) >>]

\* Lines a user's CSV is made of: cells for procedimiento, DAP_Gycm2,
\* Ka_r_mGy and tiempo_fluoro_min.
Lines ==
    { << <<"A">>, <<"2", ".", "0">>, <<"1", "0", ".", "0">>, <<"0", ".", "5">> >>,
      << <<"A">>, <<"4", ".", "5">>, <<"3", "0", ".", "5">>, <<"1", ".", "3", "4">> >>,
      << <<"B">>, <<"1", ".", "0">>, <<"2", "0", ".", "0">>, <<"1", ".", "0">> >>,
      << <<"7">>, <<"3", ".", "0">>, <<"1", "0", ".", "0">>, <<"1", ".", "0">> >>,
      << <<>>,    <<"2", ".", "0">>, <<"1", "0", ".", "0">>, <<"1", ".", "2", "6">> >>,
      << <<"B">>, <<>>,              <<"2", "0", ".", "0">>, <<"0", ".", "5">> >>,
      << <<"A">>, <<"2", ".", "0">>, <<>>,                   <<>> >> }

\* Headers: the required columns in their usual order, any of them left out.
Headers ==
    { h \in UNION {[1..n -> cols_req] : n \in 1..4} :
        \A i, j \in 1..Len(h) : i < j => ColPos(ColumnOrder, h[i]) < ColPos(ColumnOrder, h[j]) }

RowSeqs == UNION {[1..n -> Lines] : n \in 1..MaxRows}

\* The CSV with header h whose lines are ls cut down to the columns of h.
MakeFile(h, ls) ==
    [header |-> h,
     rows   |-> [i \in 1..Len(ls) |->
                   [j \in 1..Len(h) |-> ls[i][ColPos(ColumnOrder, h[j])]]]]

\* The files of the model: with the tiempo column, at least one of its cells
\* is a number (the slider needs a maximum); with a required column missing,
\* one line of data (the pass stops before it reads any).
Usable(file) ==
    /\ "tiempo_fluoro_min" \in Range(file.header) =>
          \E i \in 1..Len(file.rows) :
              file.rows[i][ColPos(file.header, "tiempo_fluoro_min")] \notin NaValues
    /\ Len(file.header) < 4 => Len(file.rows) = 1

Files == { f \in {MakeFile(h, ls) : h \in Headers, ls \in RowSeqs} : Usable(f) }

(* ------------------------------------------------------------------------ *)
(* Arithmetic of the aggregations                                           *)
(* ------------------------------------------------------------------------ *)

\* An exact rational n/d (d > 0), in hundredths; QNaN when undefined.
Q(n, d) == [k |-> "q", n |-> n, d |-> d]

QNaN == [k |-> "nan", n |-> 0, d |-> 1]

\* The square root of n/d.
Sqrt(n, d) == [k |-> "sqrt", n |-> n, d |-> d]

QLeq(a, b) == a.n * b.d <= b.n * a.d

QEq(a, b) == a.k = b.k /\ a.n * b.d = b.n * a.d

RECURSIVE Sum(_)
Sum(xs) == IF Len(xs) = 0 THEN 0 ELSE Head(xs) + Sum(Tail(xs))

RECURSIVE SumSq(_)
SumSq(xs) == IF Len(xs) = 0 THEN 0 ELSE Head(xs) * Head(xs) + SumSq(Tail(xs))

RECURSIVE Insert(_, _)
Insert(x, sorted) ==
    IF Len(sorted) = 0 THEN <<x>>
    ELSE IF x < Head(sorted) THEN <<x>> \o sorted
    ELSE <<Head(sorted)>> \o Insert(x, Tail(sorted))

RECURSIVE SortNums(_)
SortNums(xs) == IF Len(xs) = 0 THEN <<>> ELSE Insert(Head(xs), SortNums(Tail(xs)))

\* Round half to even of n/d to an integer (numpy's rint).
RoundHalfEven(n, d) ==
    LET fl == n \div d
        r2 == 2 * (n % d)
    IN  IF r2 < d THEN fl
        ELSE IF r2 > d THEN fl + 1
        ELSE IF fl % 2 = 0 THEN fl ELSE fl + 1

RECURSIVE FloorSqrt(_, _, _, _)
\* Largest s in lo..hi with s*s*d <= n (lo satisfies it).
FloorSqrt(n, d, lo, hi) ==
    IF lo = hi THEN lo
    ELSE LET mid == (lo + hi + 1) \div 2
         IN  IF mid * mid * d <= n THEN FloorSqrt(n, d, mid, hi)
             ELSE FloorSqrt(n, d, lo, mid - 1)

RECURSIVE AboveSqrt(_, _, _)
\* A power of two h with h*h*d > n.
AboveSqrt(n, d, h) == IF h * h * d > n THEN h ELSE AboveSqrt(n, d, 2 * h)

\* sqrt(n/d) rounded to an integer.
RoundSqrt(n, d) ==
    LET fl == FloorSqrt(n, d, 0, AboveSqrt(n, d, 1))
        \* sqrt(n/d) against fl + 1/2
        lhs == 4 * n
        rhs == (2 * fl + 1) * (2 * fl + 1) * d
    IN  IF lhs < rhs THEN fl
        ELSE IF lhs > rhs THEN fl + 1
        ELSE IF fl % 2 = 0 THEN fl ELSE fl + 1

\* Series.round(2) of a statistic.
Round2(q) ==
    IF q.k = "nan" THEN NaN
    ELSE IF q.k = "sqrt" THEN Num(RoundSqrt(q.n, q.d))
    ELSE Num(RoundHalfEven(q.n, q.d))

\* The aggregations skip missing values: xs are the numbers present.
Mean(xs) == IF Len(xs) = 0 THEN QNaN ELSE Q(Sum(xs), Len(xs))

Median(xs) ==
    LET n == Len(xs)
        o == SortNums(xs)
    IN  IF n = 0 THEN QNaN
        ELSE IF n % 2 = 1 THEN Q(o[(n + 1) \div 2], 1)
        ELSE Q(o[n \div 2] + o[(n \div 2) + 1], 2)

\* quantile(0.75), linear interpolation between order statistics.
Quantile75(xs) ==
    LET n == Len(xs)
        o == SortNums(xs)
        i == (3 * (n - 1)) \div 4
        r == (3 * (n - 1)) % 4
    IN  IF n = 0 THEN QNaN
        ELSE IF r = 0 THEN Q(o[i + 1], 1)
        ELSE Q(4 * o[i + 1] + r * (o[i + 2] - o[i + 1]), 4)

\* std(ddof=1): NaN below two values.
StdMuestral(xs) ==
    LET n == Len(xs)
    IN  IF n < 2 THEN QNaN
        ELSE Sqrt(n * SumSq(xs) - Sum(xs) * Sum(xs), n * (n - 1))

\* std(ddof=0), the population deviation.
StdPoblacional(xs) ==
    LET n == Len(xs)
    IN  IF n < 1 THEN QNaN
        ELSE Sqrt(n * SumSq(xs) - Sum(xs) * Sum(xs), n * n)

Min(xs) == IF Len(xs) = 0 THEN QNaN ELSE Q(SortNums(xs)[1], 1)

Max(xs) == IF Len(xs) = 0 THEN QNaN ELSE Q(SortNums(xs)[Len(xs)], 1)

(* ------------------------------------------------------------------------ *)
(* groupby("procedimiento")                                                 *)
(* ------------------------------------------------------------------------ *)

\* Order of group keys: numbers by value, strings by code point.
KeyLess(a, b) == IF a.k = "num" THEN a.x < b.x ELSE TextLess(a.s, b.s)

RECURSIVE SortKeys(_)
SortKeys(ks) ==
    IF ks = {} THEN <<>>
    ELSE LET m == CHOOSE a \in ks : \A b \in ks \ {a} : KeyLess(a, b)
         IN  <<m>> \o SortKeys(ks \ {m})

\* The distinct labels present, missing ones dropped.
Labels(df_in) ==
    {df_in.rows[i].v["procedimiento"] : i \in 1..Len(df_in.rows)} \ {NaN}

\* Group keys in ascending order (groupby sorts its keys and drops NaN).
GroupKeys(df_in) == SortKeys(Labels(df_in))

\* df_in[df_in["procedimiento"] == p][var].values: the group's values of var
\* in record order, missing ones included.
GroupValues(df_in, p, var) ==
    LET hit == SelectSeq(df_in.rows, LAMBDA r : ValEq(r.v["procedimiento"], p))
    IN  [i \in 1..Len(hit) |-> hit[i].v[var]]

\* The numbers among vals, in order.
Present(vals) ==
    LET num == SelectSeq(vals, LAMBDA v : ~IsNaN(v))
    IN  [i \in 1..Len(num) |-> num[i].x]

(* ------------------------------------------------------------------------ *)
(* Filtros                                                                  *)
(* ------------------------------------------------------------------------ *)

\* procs: the options of the multiselect (a sorted list in the code; its
\* order plays no part in the filter).
procs(df_in) == Labels(df_in)

\* The column var of df_in, record by record.
Column(df_in, var) == [i \in 1..Len(df_in.rows) |-> df_in.rows[i].v[var]]

\* float(df["tiempo_fluoro_min"].min()) and .max(): missing values skipped.
tmin(df_in) == Min(Present(Column(df_in, "tiempo_fluoro_min"))).n

tmax(df_in) == Max(Present(Column(df_in, "tiempo_fluoro_min"))).n

\* round(x, 1) of a number of hundredths, as hundredths (no modelled value
\* lies halfway between two tenths).
Round1(x) == 10 * RoundHalfEven(x, 10)

\* Slider arguments: min_value=0.0, max_value=max(1.0, round(tmax,1)),
\* value=(0.0, round(tmax,1)), step=0.5.
SliderMin == 0

SliderStep == 50

SliderMax(df_in) == IF Round1(tmax(df_in)) > 100 THEN Round1(tmax(df_in)) ELSE 100

SliderDefault(df_in) == <<SliderMin, Round1(tmax(df_in))>>

\* Positions a thumb can be dragged to: min_value + k * step up to max_value.
SliderGrid(maxv) == {SliderMin + k * SliderStep : k \in 0..(maxv \div SliderStep)}
                        \cap SliderMin..maxv

\* df[df["procedimiento"].isin(sel_procs)].copy()
IsinSel(df_in, sel) ==
    [df_in EXCEPT !.rows =
        SelectSeq(df_in.rows, LAMBDA r : \E p \in sel : ValEq(r.v["procedimiento"], p))]

\* one bound exclusive
EnRangoAbierto(t, rango) == ~IsNaN(t) /\ t.x >= rango[1] /\ t.x < rango[2]

\* One record's test of the time range: rango_t[0] <= t <= rango_t[1],
\* False for a missing t.
EnRango(t, rango) == ~IsNaN(t) /\ t.x >= rango[1] /\ t.x <= rango[2]

\* df_f: both filters, a new frame; df keeps its records.
Filtrar(df_in, sel, rango) ==
    LET a == IsinSel(df_in, sel)
    IN  [a EXCEPT !.rows =
            SelectSeq(a.rows, LAMBDA r : EnRango(r.v["tiempo_fluoro_min"], rango))]

(* ------------------------------------------------------------------------ *)
(* Resumen por procedimiento                                                *)
(* ------------------------------------------------------------------------ *)

ResumenColumns ==
    <<"procedimiento", "n", "media", "mediana", "p75 (DRL candidato)", "std", "min", "max">>

\* the records of the group, missing values counted too (g.size())
Size(vals) == Len(vals)

\* g.count(): the values present in the group.
Count(vals) == Len(Present(vals))

\* The deviation resumen reports.
StdResumen(xs) == StdMuestral(xs)

\* resumen(df_in, var): one row per group key in ascending key order, with a
\* fresh index (reset_index).
resumen(df_in, var) ==
    LET keys == GroupKeys(df_in)
        fila(i) ==
            LET vals == GroupValues(df_in, keys[i], var)
                xs == Present(vals)
            IN  [c \in Range(ResumenColumns) |->
                    CASE c = "procedimiento" -> keys[i]
                      [] c = "n" -> Num(100 * Count(vals))
                      [] c = "media" -> Round2(Mean(xs))
                      [] c = "mediana" -> Round2(Median(xs))
                      [] c = "p75 (DRL candidato)" -> Round2(Quantile75(xs))
                      [] c = "std" -> Round2(StdResumen(xs))
                      [] c = "min" -> Round2(Min(xs))
                      [] OTHER -> Round2(Max(xs))]
    IN  [columns |-> ResumenColumns,
         dtypes  |-> [c \in Range(ResumenColumns) |->
                        IF c = "procedimiento" THEN df_in.dtypes["procedimiento"]
                        ELSE IF c = "n" THEN "int64" ELSE "float64"],
         rows    |-> [i \in 1..Len(keys) |-> [idx |-> i - 1, v |-> fila(i)]]]

(* ------------------------------------------------------------------------ *)
(* Gráficos                                                                 *)
(* ------------------------------------------------------------------------ *)

\* A figure with its marks (boxes or bars), or the exception the call raised.
Fig(kind, marks) == [k |-> kind, marks |-> marks]

RECURSIVE InsertBy(_, _, _)
\* Insertion after the entries that are not greater: a stable sort.  f maps
\* each key to its statistic.
InsertBy(e, sorted, f) ==
    IF Len(sorted) = 0 THEN <<e>>
    ELSE IF QLeq(f[Head(sorted)], f[e]) THEN <<Head(sorted)>> \o InsertBy(e, Tail(sorted), f)
    ELSE <<e>> \o sorted

RECURSIVE SortBy(_, _)
SortBy(es, f) ==
    IF Len(es) = 0 THEN <<>>
    ELSE InsertBy(es[Len(es)], SortBy(SubSeq(es, 1, Len(es) - 1), f), f)

\* sort_values() of one statistic per key: ascending, keys whose statistic is
\* NaN last.
sort_values(keys, f) ==
    SortBy(SelectSeq(keys, LAMBDA p : f[p].k # "nan"), f)
        \o SelectSeq(keys, LAMBDA p : f[p].k = "nan")

\* ax.boxplot(data, labels=procs_ord): an empty list of data sets is taken
\* as one empty data set, and the labels must be as many as the data sets.
AxBoxplot(data, labels) ==
    LET ncols == IF Len(data) = 0 THEN 1 ELSE Len(data)
    IN  IF Len(labels) # ncols THEN Fig("ValueError", <<>>)
        ELSE Fig("fig", [i \in 1..Len(data) |-> [label |-> labels[i], data |-> data[i]]])

boxplot_por_proc(df_in, var) ==
    LET med == [p \in Labels(df_in) |-> Median(Present(GroupValues(df_in, p, var)))]
        procs_ord == sort_values(GroupKeys(df_in), med)
        data == [i \in 1..Len(procs_ord) |-> GroupValues(df_in, procs_ord[i], var)]
    IN  AxBoxplot(data, procs_ord)

\* ax.bar(agg.index, agg["mean"]) with ax.errorbar(..., yerr=agg["std"]).
barras_media_std(df_in, var) ==
    LET mean == [p \in Labels(df_in) |-> Mean(Present(GroupValues(df_in, p, var)))]
        index == sort_values(GroupKeys(df_in), mean)
    IN  Fig("fig", [i \in 1..Len(index) |->
                      [label  |-> index[i],
                       height |-> mean[index[i]],
                       yerr   |-> StdMuestral(Present(GroupValues(df_in, index[i], var)))]])

\* The three numeric fields, in the order the script charts them.
Vars == <<"DAP_Gycm2", "Ka_r_mGy", "tiempo_fluoro_min">>

\* The six st.pyplot calls in script order; the run ends at the first call
\* that raises, keeping the figures drawn before it.
Figuras(df_in) ==
    LET all == [i \in 1..6 |->
                  IF i <= 3 THEN boxplot_por_proc(df_in, Vars[i])
                  ELSE barras_media_std(df_in, Vars[i - 3])]
        bad == {i \in 1..6 : all[i].k # "fig"}
    IN  IF bad = {} THEN all
        ELSE SubSeq(all, 1, (CHOOSE i \in bad : \A j \in bad : i <= j) - 1)

(* ------------------------------------------------------------------------ *)
(* The session                                                              *)
(* ------------------------------------------------------------------------ *)

\* An optional value is a sequence of length 0 (absent) or 1.
VARIABLES
    archivo,     \* the file in the uploader, or absent (None)
    widgets,     \* Streamlit's state of the multiselect and the slider
    df,          \* the loaded Dataset of the last pass
    faltantes,   \* the missing columns st.error reported in the last pass
    estado,      \* how the last pass ended: "ok", "stop" (st.stop) or "excepcion"
    sel_procs,   \* value of the multiselect in the last pass, if it ran
    rango_t,     \* value of the slider in the last pass, if it ran
    df_f,        \* the filtered dataset shown, if any
    res_dap,     \* the summary tables shown, if any
    res_kar,
    res_t,
    figs,        \* the figures shown, in script order
    descargas    \* the payloads of the download buttons shown, in script order

vars == <<archivo, widgets, df, faltantes, estado, sel_procs, rango_t, df_f,
          res_dap, res_kar, res_t, figs, descargas>>

\* No widget has run yet, or the last pass stopped before them: Streamlit
\* forgets the state of a widget that a pass does not create.
SinWidgets == [ms |-> <<>>, sl |-> <<>>]

\* if archivo is not None: df = pd.read_csv(archivo) else: df = ejemplo_df()
Cargar(a) == IF a = <<>> THEN ejemplo_df ELSE read_csv(a[1])

\* every required column reported as soon as one is missing
FaltantesTodas(df_in) == IF cols_req \subseteq Range(df_in.columns) THEN {} ELSE cols_req

\* faltantes = cols_req - set(df.columns)
Faltantes(df_in) == cols_req \ Range(df_in.columns)

\* A widget keeps the user's value from pass to pass as long as its arguments
\* (options and default, or bounds, default and step) stay the same; with
\* other arguments it is a new widget and starts from its default.
MultiselectValue(w, options) ==
    IF w.ms # <<>> /\ w.ms[1].id = options THEN w.ms[1].val ELSE options

SliderId(df_in) == <<SliderMax(df_in), SliderDefault(df_in)>>

\* the user's last value kept whatever the arguments
SliderValueKept(w, df_in) == IF w.sl # <<>> THEN w.sl[1].val ELSE SliderDefault(df_in)

SliderValue(w, df_in) ==
    IF w.sl # <<>> /\ w.sl[1].id = SliderId(df_in) THEN w.sl[1].val
    ELSE SliderDefault(df_in)

\* The payloads of the three download buttons.
Descargas(dff, rd, rk) == <<to_csv(dff), to_csv(rd), to_csv(rk)>>

\* the filtered dataset of the pass before, when there is one
DatosAnteriores(df_in, prev, sel, rango) ==
    IF prev # <<>> THEN prev[1] ELSE Filtrar(df_in, sel, rango)

\* The filtered dataset a pass shows, from the loaded one and the controls.
DatosFiltrados(df_in, prev, sel, rango) == Filtrar(df_in, sel, rango)

\* One execution of the script with file a in the uploader, widget state w and
\* prev the filtered dataset on screen before: everything the pass leaves.
Script(a, w, prev) ==
    LET d == Cargar(a)
        falt == Faltantes(d)
    IN  IF falt # {}
        THEN [df |-> d, faltantes |-> falt, estado |-> "stop", widgets |-> SinWidgets,
              sel_procs |-> <<>>, rango_t |-> <<>>, df_f |-> <<>>,
              res_dap |-> <<>>, res_kar |-> <<>>, res_t |-> <<>>,
              figs |-> <<>>, descargas |-> <<>>]
        ELSE
        LET sel == MultiselectValue(w, procs(d))
            rango == SliderValue(w, d)
            dff == DatosFiltrados(d, prev, sel, rango)
            rd == resumen(dff, "DAP_Gycm2")
            rk == resumen(dff, "Ka_r_mGy")
            rt == resumen(dff, "tiempo_fluoro_min")
            fs == Figuras(dff)
        IN  [df |-> d, faltantes |-> falt,
             estado |-> IF Len(fs) = 6 THEN "ok" ELSE "excepcion",
             widgets |-> [ms |-> <<[id |-> procs(d), val |-> sel]>>,
                          sl |-> <<[id |-> SliderId(d), val |-> rango]>>],
             sel_procs |-> <<sel>>, rango_t |-> <<rango>>, df_f |-> <<dff>>,
             res_dap |-> <<rd>>, res_kar |-> <<rk>>, res_t |-> <<rt>>,
             figs |-> fs,
             descargas |-> IF Len(fs) = 6 THEN Descargas(dff, rd, rk) ELSE <<>>]

\* The pass that follows an interaction.
Pasada(a, w) ==
    \E r \in {Script(a, w, df_f)} :
        /\ archivo' = a
        /\ widgets' = r.widgets
        /\ df' = r.df
        /\ faltantes' = r.faltantes
        /\ estado' = r.estado
        /\ sel_procs' = r.sel_procs
        /\ rango_t' = r.rango_t
        /\ df_f' = r.df_f
        /\ res_dap' = r.res_dap
        /\ res_kar' = r.res_kar
        /\ res_t' = r.res_t
        /\ figs' = r.figs
        /\ descargas' = r.descargas

\* The first pass of a session: no file, no widget state.
Init ==
    \E r \in {Script(<<>>, SinWidgets, <<>>)} :
        /\ archivo = <<>>
        /\ widgets = r.widgets
        /\ df = r.df
        /\ faltantes = r.faltantes
        /\ estado = r.estado
        /\ sel_procs = r.sel_procs
        /\ rango_t = r.rango_t
        /\ df_f = r.df_f
        /\ res_dap = r.res_dap
        /\ res_kar = r.res_kar
        /\ res_t = r.res_t
        /\ figs = r.figs
        /\ descargas = r.descargas

\* The user drops a CSV into the empty uploader.
Subir(f) ==
    /\ archivo = <<>>
    /\ Pasada(<<f>>, widgets)

\* The revisions of a file: one more line, or its last line dropped.
Revisiones(f) ==
    LET more == IF Len(f.rows) < MaxRows
                THEN {[f EXCEPT !.rows = f.rows \o MakeFile(f.header, <<l>>).rows] : l \in Lines}
                ELSE {}
        less == IF Len(f.rows) > 1
                THEN {[f EXCEPT !.rows = SubSeq(f.rows, 1, Len(f.rows) - 1)]}
                ELSE {}
    IN  {g \in more \cup less : Usable(g)}

\* The user uploads a revised version of the file over the current one.
Reemplazar ==
    /\ archivo # <<>>
    /\ \E f \in Revisiones(archivo[1]) : Pasada(<<f>>, widgets)

\* The user removes the file: the example dataset is back.
Quitar ==
    /\ archivo # <<>>
    /\ Pasada(<<>>, widgets)

\* The user adds or removes one procedure in the multiselect.
CambiarProcs ==
    /\ widgets.ms # <<>>
    /\ \E p \in widgets.ms[1].id :
          LET cur == widgets.ms[1].val
              new == IF p \in cur THEN cur \ {p} ELSE cur \cup {p}
          IN  Pasada(archivo, [widgets EXCEPT !.ms[1].val = new])

\* The user clears the multiselect.
LimpiarProcs ==
    /\ widgets.ms # <<>>
    /\ Pasada(archivo, [widgets EXCEPT !.ms[1].val = {}])

\* The user drags the lower thumb of the slider.
MoverBajo ==
    /\ widgets.sl # <<>>
    /\ \E lo \in SliderGrid(widgets.sl[1].id[1]) :
          /\ lo <= widgets.sl[1].val[2]
          /\ Pasada(archivo, [widgets EXCEPT !.sl[1].val[1] = lo])

\* The user drags the upper thumb of the slider.
MoverAlto ==
    /\ widgets.sl # <<>>
    /\ \E hi \in SliderGrid(widgets.sl[1].id[1]) :
          /\ widgets.sl[1].val[1] <= hi
          /\ Pasada(archivo, [widgets EXCEPT !.sl[1].val[2] = hi])

\* The user clicks one of the download buttons: the script runs again.
Descargar ==
    /\ descargas # <<>>
    /\ Pasada(archivo, widgets)

Next ==
    \/ \E f \in Files : Subir(f)
    \/ Reemplazar
    \/ Quitar
    \/ CambiarProcs
    \/ LimpiarProcs
    \/ MoverBajo
    \/ MoverAlto
    \/ Descargar

Spec == Init /\ [][Next]_vars

(* ------------------------------------------------------------------------ *)
(* Properties                                                               *)
(* ------------------------------------------------------------------------ *)

\* The header of the table the last pass loaded.
HeaderLoaded == IF archivo = <<>> THEN ColumnOrder ELSE archivo[1].header

\* The procedimiento and tiempo_fluoro_min of a record.
ProcOf(r) == r.v["procedimiento"]

TimeOf(r) == r.v["tiempo_fluoro_min"]

\* A record passes the criteria: label selected, time a number within
\* [low, high], both ends included.
Passes(r, sel, rango) ==
    /\ ProcOf(r) \in sel
    /\ TimeOf(r).k = "num"
    /\ rango[1] <= TimeOf(r).x
    /\ TimeOf(r).x <= rango[2]

\* The observed times of the loaded Dataset.
TimesObserved == {TimeOf(df.rows[i]).x : i \in {j \in 1..Len(df.rows) : TimeOf(df.rows[j]).k = "num"}}

\* The summary tables on screen with the field each one summarises.
Tables ==
    IF res_dap = <<>> THEN {}
    ELSE {<<res_dap[1], "DAP_Gycm2">>, <<res_kar[1], "Ka_r_mGy">>,
          <<res_t[1], "tiempo_fluoro_min">>}

\* The records of df_f with label p.
GroupOf(p) == {i \in 1..Len(df_f[1].rows) : ProcOf(df_f[1].rows[i]) = p}

\* C1: whenever a pass has filtered, df_f holds exactly the records of the
\* loaded Dataset whose procedimiento is selected and whose time lies in
\* [low, high] inclusive, each once and in the Dataset's order, and nothing
\* that is not a record of the Dataset.
C1_FilterExact ==
    df_f # <<>> =>
        LET f == df_f[1].rows
        IN  /\ \A i \in 1..Len(df.rows) :
                  (\E j \in 1..Len(f) : f[j] = df.rows[i])
                      <=> Passes(df.rows[i], sel_procs[1], rango_t[1])
            /\ \A j \in 1..Len(f) : \E i \in 1..Len(df.rows) : f[j] = df.rows[i]
            /\ \A j, k \in 1..Len(f) : j < k => f[j].idx < f[k].idx

\* C1 witness: a record kept with its time equal to the upper bound, beside a
\* record dropped for its time and a record dropped for its label.
C1_Witness ==
    /\ df_f # <<>>
    /\ \E j \in 1..Len(df_f[1].rows) : TimeOf(df_f[1].rows[j]).x = rango_t[1][2]
    /\ \E i \in 1..Len(df.rows) :
          /\ ProcOf(df.rows[i]) \in sel_procs[1]
          /\ TimeOf(df.rows[i]).k = "num"
          /\ TimeOf(df.rows[i]).x > rango_t[1][2]
    /\ \E i \in 1..Len(df.rows) :
          /\ ProcOf(df.rows[i]).k # "nan"
          /\ ProcOf(df.rows[i]) \notin sel_procs[1]
          /\ Passes(df.rows[i], {ProcOf(df.rows[i])}, rango_t[1])

\* C2: the pass reports exactly the required columns that the loaded table
\* lacks; when there is any it stops there, with no filter, summary, chart or
\* export; when there is none nothing is reported and the pass goes on to
\* the filter.
C2_SchemaError ==
    LET missing == cols_req \ Range(HeaderLoaded)
    IN  /\ faltantes = missing
        /\ missing # {} =>
              /\ estado = "stop"
              /\ sel_procs = <<>> /\ rango_t = <<>> /\ df_f = <<>>
              /\ res_dap = <<>> /\ res_kar = <<>> /\ res_t = <<>>
              /\ figs = <<>> /\ descargas = <<>>
        /\ missing = {} => estado # "stop" /\ df_f # <<>>

\* C2 witness: a pass stopped on a table that lacks two required columns and
\* has the other two.
C2_Witness == estado = "stop" /\ Cardinality(faltantes) = 2

C4_EmptyRunsToCompletion ==
    (df_f # <<>> /\ Len(df_f[1].rows) = 0) =>
        /\ estado = "ok"
        /\ \A t \in Tables : Len(t[1].rows) = 0
        /\ Len(figs) = 6
        /\ \A i \in 1..Len(figs) : figs[i].k = "fig" /\ Len(figs[i].marks) = 0
        /\ Len(descargas) = 3

\* C5 as claimed: the range handed to the filter has low <= high and both
\* bounds within the observed minimum and maximum of tiempo_fluoro_min.
C5_RangeWithinObserved ==
    rango_t # <<>> =>
        /\ rango_t[1][1] <= rango_t[1][2]
        /\ \A b \in {rango_t[1][1], rango_t[1][2]} :
              /\ \E t \in TimesObserved : t <= b
              /\ \E t \in TimesObserved : b <= t

\* C5 amended: for a loaded Dataset whose largest tiempo_fluoro_min is a
\* number >= 0, the range handed to the filter has 0.0 <= low <= high <=
\* max(1.0, round(tmax, 1)), the bounds of the slider.
C5_RangeWithinSlider ==
    rango_t # <<>> =>
        LET m == CHOOSE t \in TimesObserved : \A u \in TimesObserved : u <= t
            top == IF Round1(m) > 100 THEN Round1(m) ELSE 100
        IN  /\ 0 <= rango_t[1][1]
            /\ rango_t[1][1] <= rango_t[1][2]
            /\ rango_t[1][2] <= top

\* C5 witness: a range the user has moved, on an uploaded file, whose low end
\* is below every observed time and whose high end is above every observed
\* time.
C5_Witness ==
    /\ rango_t # <<>>
    /\ archivo # <<>>
    /\ rango_t[1] # SliderDefault(df)
    /\ \A t \in TimesObserved : rango_t[1][1] < t /\ t < rango_t[1][2]

\* C6: in every summary row the standard deviation is present exactly when
\* the row's count is at least 2, and is then >= 0.
C6_StdPresence ==
    \A t \in Tables : \A i \in 1..Len(t[1].rows) :
        LET row == t[1].rows[i].v
        IN  /\ row["std"].k = "num" <=> row["n"].x >= 200
            /\ row["std"].k # "num" => row["std"].k = "nan"
            /\ row["std"].k = "num" => row["std"].x >= 0

\* C6 witness: one table with a row of count 1 and no deviation and a row of
\* count 2 or more with a deviation above 0.
C6_Witness ==
    \E t \in Tables :
        /\ \E i \in 1..Len(t[1].rows) :
              t[1].rows[i].v["n"].x = 100 /\ t[1].rows[i].v["std"].k = "nan"
        /\ \E i \in 1..Len(t[1].rows) :
              t[1].rows[i].v["n"].x >= 200 /\ t[1].rows[i].v["std"].x > 0

\* C7 as claimed: the exported filtered dataset, parsed again by the loader,
\* has the columns of df_f in the same order and the records of df_f in the
\* same order with equal field values.
C7_ExportRoundTrip ==
    descargas # <<>> => SameContent(read_csv(descargas[1]), df_f[1])

\* The statistic of a chart's group, NaN when the group has no value.
MedianOf(p, var) == Median(Present(GroupValues(df_f[1], p, var)))

MeanOf(p, var) == Mean(Present(GroupValues(df_f[1], p, var)))

\* a is not after b in ascending order, missing statistics last.
Ascending(a, b) == b.k = "nan" \/ (a.k # "nan" /\ QLeq(a, b))

\* The marks of figure g stand one to one for the labels of df_f.
OnePerLabel(g) ==
    /\ g.k = "fig"
    /\ {g.marks[i].label : i \in 1..Len(g.marks)} = Labels(df_f[1])
    /\ Len(g.marks) = Cardinality(Labels(df_f[1]))

\* C8 as claimed: for every filtered dataset and each of the three fields the
\* box plot has one box per procedimiento present, in ascending order of the
\* group medians, and the bar chart one bar per procedimiento present, in
\* ascending order of the group means, each bar as high as its group's mean.
C8_ChartsPerGroup ==
    df_f # <<>> =>
        /\ Len(figs) = 6
        /\ \A v \in 1..3 :
              /\ OnePerLabel(figs[v])
              /\ \A i \in 1..(Len(figs[v].marks) - 1) :
                    Ascending(MedianOf(figs[v].marks[i].label, Vars[v]),
                              MedianOf(figs[v].marks[i + 1].label, Vars[v]))
              /\ OnePerLabel(figs[v + 3])
              /\ \A i \in 1..(Len(figs[v + 3].marks) - 1) :
                    Ascending(MeanOf(figs[v + 3].marks[i].label, Vars[v]),
                              MeanOf(figs[v + 3].marks[i + 1].label, Vars[v]))
              /\ \A i \in 1..Len(figs[v + 3].marks) :
                    QEq(figs[v + 3].marks[i].height,
                        MeanOf(figs[v + 3].marks[i].label, Vars[v]))

\* C9: after every pass the loaded Dataset is the one the uploader's file (or
\* the example) gives, the criteria are the widgets' current values, and the
\* filtered dataset, the summaries, the figures and the exports on screen
\* are those computed from that Dataset and those criteria.
C9_NothingStale ==
    /\ df = Cargar(archivo)
    /\ df_f # <<>> =>
          /\ widgets.ms # <<>> /\ widgets.sl # <<>>
          /\ sel_procs[1] = widgets.ms[1].val
          /\ rango_t[1] = widgets.sl[1].val
          /\ df_f[1] = Filtrar(df, sel_procs[1], rango_t[1])
          /\ res_dap[1] = resumen(df_f[1], "DAP_Gycm2")
          /\ res_kar[1] = resumen(df_f[1], "Ka_r_mGy")
          /\ res_t[1] = resumen(df_f[1], "tiempo_fluoro_min")
          /\ figs = Figuras(df_f[1])
          /\ descargas # <<>> => descargas = Descargas(df_f[1], res_dap[1], res_kar[1])
    /\ df_f = <<>> => res_dap = <<>> /\ res_kar = <<>> /\ res_t = <<>>
                        /\ figs = <<>> /\ descargas = <<>>

\* C9 witness: a completed pass on an uploaded file with both controls away
\* from their defaults and a filtered dataset smaller than the loaded one.
C9_Witness ==
    /\ archivo # <<>>
    /\ estado = "ok"
    /\ sel_procs[1] # procs(df)
    /\ rango_t[1] # SliderDefault(df)
    /\ Len(df_f[1].rows) < Len(df.rows)

\* C10 as claimed: with the controls at their defaults (every procedure
\* selected, range (0.0, round(tmax, 1))) the filtered dataset holds every
\* record of the loaded Dataset whose procedimiento is not missing and whose
\* tiempo_fluoro_min is a number >= 0.
C10_DefaultsKeepAll ==
    (df_f # <<>> /\ sel_procs[1] = procs(df) /\ rango_t[1] = SliderDefault(df)) =>
        \A i \in 1..Len(df.rows) :
            (ProcOf(df.rows[i]).k # "nan" /\ TimeOf(df.rows[i]).k = "num"
                /\ TimeOf(df.rows[i]).x >= 0)
            => \E j \in 1..Len(df_f[1].rows) : df_f[1].rows[j] = df.rows[i]

====
